---- MODULE Spec2Model ----
(***************************************************************************)
(* koi_fish: a configuration-driven task runner.                           *)
(*                                                                         *)
(* The model follows one invocation: the command line is parsed            *)
(* (src/koi/__main__.py), the Runner reads koi.toml, validates the names   *)
(* given on the command line, resolves the primary suite, runs it job by   *)
(* job, resolves and runs the deferred ("finally") suite, prints the       *)
(* statistics and exits (src/koi/runner.py).                               *)
(*                                                                         *)
(* Logging is modelled by what it records about the run: `log` holds one   *)
(* event per job attempt (the Logger.start line and the outcome), and      *)
(* `report` holds the lists log_stats prints.                              *)
(***************************************************************************)
EXTENDS Integers, Sequences, FiniteSets, TLC

VARIABLES
    pc,                 \* position of the primary thread in the invocation
    cli_jobs,           \* Runner.cli_jobs            (-j/--jobs)
    jobs_to_omit,       \* Runner.jobs_to_omit        (--skip)
    run_all,            \* Runner.run_all             (--run-all)
    fail_fast,          \* Runner.fail_fast           (-f/--fail-fast)
    jobs_to_defer,      \* Runner.jobs_to_defer       (--finally)
    allow_duplicates,   \* Runner.allow_duplicates    (--allow-duplicates)
    display,            \* display_suite / display_all / jobs_to_describe
    data,               \* Runner.data: the decoded koi.toml
    all_jobs,           \* Runner.all_jobs
    successful_jobs,    \* Runner.successful_jobs
    failed_jobs,        \* Runner.failed_jobs
    is_successful,      \* Runner.is_successful
    cached,             \* the cached_property values computed so far
    job_suite,          \* value of the cached property job_suite (names)
    deferred_jobs,      \* value of the cached property deferred_jobs (names)
    i,                  \* loop index of run_sub_flow (1-based)
    is_run_successful,  \* local of run_jobs / run_sub_flow
    log,                \* one event per job attempt, in order
    report,             \* what log_stats / display_jobs_info printed
    exit_code,          \* exit status of the process, -1 while running
    table_entries,      \* the job table handed to build_commands_list
    scan_order,         \* iteration order of the three alias sets
    built,              \* what build_commands_list returned
    silent_logs,        \* Runner.silent_logs        (-s/--silent)
    supervisor,         \* Runner.supervisor: the Event is set
    workers,            \* the spinner tasks submitted so far, each "running"
                        \* or "done"
    proc,               \* the job's shell subprocess
    epc,                \* position of the primary thread inside one
                        \* iteration of run_sub_flow
    exc,                \* the exception that is propagating, or "none"
    set_count           \* calls of supervisor.set() for the current job

\* the state of one command assembly taken alone
buildVars == <<table_entries, scan_order, built>>

\* the state of execute_shell_commands and of the spinner
execVars == <<silent_logs, supervisor, workers, proc, epc, exc, set_count>>

vars == <<pc, cli_jobs, jobs_to_omit, run_all, fail_fast, jobs_to_defer,
          allow_duplicates, display, data, all_jobs, successful_jobs,
          failed_jobs, is_successful, cached, job_suite, deferred_jobs, i,
          is_run_successful, log, report, exit_code, buildVars, execVars>>

(***************************************************************************)
(* Bounds of the model.                                                    *)
(***************************************************************************)
MaxCli == 2       \* longest -j list
MaxOmit == 1      \* longest --skip list
MaxDefer == 2     \* longest --finally list
MaxMain == 2      \* longest run.main list
MaxKeys == 3      \* most top-level tables in koi.toml
MaxBroken == 1    \* most job tables whose command assembly fails
MaxOptions == 2   \* most options given on one command line
MaxEntries == 3   \* most keys in the job table of one command assembly

(***************************************************************************)
(* Names.                                                                  *)
(***************************************************************************)
RUN == "run"                      \* Table.RUN
MAIN == "main"                    \* Table.MAIN
JobNames == {"a", "b"}
AllNames == JobNames \cup {RUN}

Range(s) == {s[k] : k \in 1..Len(s)}
SeqsUpTo(S, n) == UNION {[1..k -> S] : k \in 0..n}
IsInjective(s) == \A p, q \in 1..Len(s) : s[p] = s[q] => p = q

(***************************************************************************)
(* Values of a table entry: absent, a string, or a list of strings.        *)
(***************************************************************************)
NoneV == [t |-> "none", v |-> <<>>]
Str(s) == [t |-> "str", v |-> <<s>>]
List(l) == [t |-> "list", v |-> l]

\* Python truthiness of an entry
Truthy(val) ==
    CASE val.t = "none" -> FALSE
      [] val.t = "str" -> val.v[1] # ""
      [] val.t = "list" -> val.v # <<>>

COMMANDS == <<"commands", "cmd">>       \* Table.COMMANDS
PRE_RUN == <<"pre_run", "pre">>         \* Table.PRE_RUN
POST_RUN == <<"post_run", "post">>      \* Table.POST_RUN

EmptyBody ==
    [commands |-> NoneV, cmd |-> NoneV, pre_run |-> NoneV, pre |-> NoneV,
     post_run |-> NoneV, post |-> NoneV]

\* the job tables of the configurations the invocation may find, by kind
BodyOK == [EmptyBody EXCEPT !.pre = Str("p1"), !.cmd = List(<<"c1", "c2">>)]
BodyDup == [EmptyBody EXCEPT !.commands = Str("c1"), !.cmd = Str("c2")]
BodyNoCmd == [EmptyBody EXCEPT !.pre_run = Str("p1")]
BodyKinds == {"ok", "dup", "nocmd"}
\* the table of a kind; "absent" is a name that is no job table (the "run"
\* table, whose keys are none of a job's, or a name the file does not hold)
TableOf(kind) ==
    CASE kind = "ok" -> BodyOK
      [] kind = "dup" -> BodyDup
      [] kind = "nocmd" -> BodyNoCmd
      [] OTHER -> EmptyBody

\* values of run.main: the key may be missing, a string, or a list of names
MainValues ==
    {NoneV, Str("a")} \cup {List(l) : l \in SeqsUpTo(AllNames, MaxMain)}

JobKeys(keys) == Range(keys) \ {RUN}

\* The decoded configurations: keys in declaration order, the kind of table
\* of each name, and run.main.
KeyOrders == {s \in SeqsUpTo(AllNames, MaxKeys) : IsInjective(s)}

\* the tables of a configuration with these keys: a job table for each key
\* but "run", of which at most MaxBroken fail command assembly
BodyTables(keys) ==
    {b \in [AllNames -> BodyKinds \cup {"absent"}] :
        /\ \A j \in AllNames : j \notin JobKeys(keys) <=> b[j] = "absent"
        /\ Cardinality({j \in AllNames : b[j] \in {"dup", "nocmd"}})
             <= MaxBroken}

\* the values of run.main in a configuration with these keys
MainValuesOf(keys) == IF RUN \in Range(keys) THEN MainValues ELSE {NoneV}

EmptyData == [keys |-> <<>>, body |-> [j \in AllNames |-> "absent"],
              main |-> NoneV]

(***************************************************************************)
(* Command line (src/koi/__main__.py).                                     *)
(***************************************************************************)
\* variant: a checker that lets the reserved name through
job_checker_any(job) == TRUE

\* job_checker: the type= of --jobs, --skip and --finally
job_checker(job) == job # RUN

\* the lists of names the parser accepts: every element passes job_checker
ArgsAccepted(cli, omit, defer) ==
    \A job \in Range(cli) \cup Range(omit) \cup Range(defer) : job_checker(job)

\* run_group: --jobs and --run-all are mutually exclusive
RunGroupOK(cli, ra) == ~(cli # <<>> /\ ra)

DisplayModes == {"none", "suite", "all", "describe"}

\* number of options on the command line
Opt(b) == IF b THEN 1 ELSE 0
OptionCount(cli, omit, defer, ra, ff, ad, disp) ==
    Opt(cli # <<>>) + Opt(omit # <<>>) + Opt(defer # <<>>) + Opt(ra)
    + Opt(ff) + Opt(ad) + Opt(disp # "none")

(***************************************************************************)
(* Runner: properties and pure helpers (src/koi/runner.py).                *)
(***************************************************************************)
Contains(s, x) == \E k \in 1..Len(s) : s[k] = x

\* `x in it` on an iterator consumes it up to and including the first x,
\* or to its end when x is not there: what is left of the iterator
IndexOf(s, x) == CHOOSE k \in 1..Len(s) : s[k] = x /\ \A m \in 1..(k-1) : s[m] # x
IterRest(s, x) == IF Contains(s, x) THEN SubSeq(s, IndexOf(s, x) + 1, Len(s)) ELSE <<>>

\* variant: the primary pass forgets the omit-list
get_job_lists_no_omit(is_deferred, self_all_jobs) ==
    IF is_deferred
    THEN [jobs |-> jobs_to_defer, skip |-> successful_jobs \o failed_jobs,
          iter |-> TRUE]
    ELSE [jobs |-> self_all_jobs, skip |-> <<>>, iter |-> FALSE]

\* get_job_lists: the raw list, the skip list, and whether the skip list is
\* a one-shot iterator (itertools.chain) rather than a list; self_all_jobs
\* is the value of self.all_jobs at the call
get_job_lists(is_deferred, self_all_jobs) ==
    IF is_deferred
    THEN [jobs |-> jobs_to_defer, skip |-> successful_jobs \o failed_jobs,
          iter |-> TRUE]
    ELSE [jobs |-> self_all_jobs, skip |-> jobs_to_omit, iter |-> FALSE]

\* the loop of prepare_job_suite from position k on
RECURSIVE PrepareLoop(_, _, _, _, _)
PrepareLoop(jobs_list, k, skip_list, is_iter, suite) ==
    IF k > Len(jobs_list) THEN suite
    ELSE LET job == jobs_list[k]
             rest == IF is_iter THEN IterRest(skip_list, job) ELSE skip_list
         IN  IF Contains(skip_list, job)
                \/ (job \in Range(suite) /\ ~allow_duplicates)
             THEN PrepareLoop(jobs_list, k + 1, rest, is_iter, suite)
             ELSE PrepareLoop(jobs_list, k + 1, rest, is_iter,
                              Append(suite, job))

prepare_job_suite(is_deferred, self_all_jobs) ==
    LET l == get_job_lists(is_deferred, self_all_jobs)
    IN  PrepareLoop(l.jobs, 1, l.skip, l.iter, <<>>)

\* variant: the names of run.main are not looked up in the configuration
prepare_all_jobs_unchecked(d) ==
    /\ d.main.t # "none"
    /\ Truthy(d.main)
    /\ d.main.t = "list"
    /\ ~Contains(d.main.v, RUN)

\* prepare_all_jobs_from_config: TRUE when run.main passes every check
prepare_all_jobs_from_config(d) ==
    /\ d.main.t # "none"                          \* 'main' is a key of 'run'
    /\ Truthy(d.main)                             \* not empty
    /\ d.main.t = "list"                          \* of type list
    /\ ~Contains(d.main.v, RUN)                   \* not itself
    /\ \A k \in 1..Len(d.main.v) : Contains(d.keys, d.main.v[k])

\* variant: run-all keeps the "run" table, and the "run" table is consulted
\* only after it
SelectAllJobsKeepsRun(d) ==
    IF cli_jobs # <<>> THEN cli_jobs
    ELSE IF run_all THEN d.keys
    ELSE IF Contains(d.keys, RUN) /\ d.main.t = "list" THEN d.main.v
    ELSE d.keys

\* job_suite, first access: the value all_jobs gets
SelectAllJobs(d) ==
    IF cli_jobs # <<>> THEN cli_jobs
    ELSE IF run_all THEN SelectSeq(d.keys, LAMBDA job : job # RUN)
    ELSE IF Contains(d.keys, RUN)
         THEN IF prepare_all_jobs_from_config(d) THEN d.main.v ELSE all_jobs
    ELSE d.keys

\* job_suite returns [] without filtering when run.main is rejected
SuiteRejected(d) ==
    /\ cli_jobs = <<>> /\ ~run_all /\ Contains(d.keys, RUN)
    /\ ~prepare_all_jobs_from_config(d)

should_display_stats == cli_jobs = <<>> \/ Len(cli_jobs) > 1

\* variant: only the suite listing counts as a display mode
should_display_job_info_suite == display = "suite"

\* should_display_job_info: display_suite, display_all or jobs_to_describe
should_display_job_info == display # "none"

\* variant: the failed jobs are not taken out of the skipped ones
skipped_jobs_keeps_failed ==
    SelectSeq(all_jobs,
              LAMBDA job : ~Contains(successful_jobs \o jobs_to_omit, job))

\* skipped_jobs
skipped_jobs ==
    SelectSeq(all_jobs,
              LAMBDA job : ~Contains(successful_jobs \o failed_jobs
                                     \o jobs_to_omit, job))

\* handle_config_file / read_config_file: the file is there, is not empty,
\* and decodes to a non-empty mapping
handle_config_file(file, d) == file = "ok" /\ d.keys # <<>>

\* variant: the defer-list is not validated
validate_cli_jobs_only(d) ==
    \A job \in Range(cli_jobs) : Contains(d.keys, job)

\* validate_cli_jobs on the decoded configuration d
validate_cli_jobs(d) ==
    \/ (cli_jobs = <<>> /\ jobs_to_defer = <<>>)
    \/ \A job \in Range(cli_jobs) \cup Range(jobs_to_defer) : Contains(d.keys, job)

\* job_suite, first access: the values of self.all_jobs and of the property
job_suite_property(d) ==
    LET aj == SelectAllJobs(d)
    IN  [all_jobs |-> aj,
         suite |-> IF SuiteRejected(d) THEN <<>>
                   ELSE prepare_job_suite(FALSE, aj)]

(***************************************************************************)
(* Command assembly.                                                       *)
(***************************************************************************)
\* get_command iterates a set of two alias names; the iteration order of a
\* Python set of strings is not fixed, so both orders are possible
AliasOrder(names, reversed) == IF reversed THEN <<names[2], names[1]>> ELSE names
AliasOrders == [1..3 -> BOOLEAN]

RECURSIVE GetCommandLoop(_, _, _, _)
GetCommandLoop(entries, table_names, k, cmd) ==
    IF k > Len(table_names) THEN [cmd |-> cmd, invalid |-> FALSE]
    ELSE LET entry == entries[table_names[k]]
         IN  IF entry.t # "none"
             THEN IF Truthy(cmd) THEN [cmd |-> NoneV, invalid |-> TRUE]
                  ELSE GetCommandLoop(entries, table_names, k + 1, entry)
             ELSE GetCommandLoop(entries, table_names, k + 1, cmd)

get_command(entries, table_names) ==
    GetCommandLoop(entries, table_names, 1, NoneV)

\* variant: the phase goes in front of what was assembled so far
add_command_front(cmds_list, cmd) ==
    IF cmd.t = "list" THEN cmd.v \o cmds_list ELSE <<cmd.v[1]>> \o cmds_list

\* add_command: a list is extended, a string appended
add_command(cmds_list, cmd) ==
    IF cmd.t = "list" THEN cmds_list \o cmd.v ELSE Append(cmds_list, cmd.v[1])

Phases == <<PRE_RUN, COMMANDS, POST_RUN>>

\* build_commands_list: ok = FALSE when it appended the job to failed_jobs
\* and returned [], err the error it logged then ("duplicate" entry, or
\* "empty" for an entry that cannot be empty or missing)
RECURSIVE BuildLoop(_, _, _, _)
BuildLoop(entries, ord, k, cmds) ==
    IF k > Len(Phases) THEN [ok |-> TRUE, cmds |-> cmds, err |-> "none"]
    ELSE LET names == Phases[k]
             got == get_command(entries, AliasOrder(names, ord[k]))
         IN  IF got.invalid
             THEN [ok |-> FALSE, cmds |-> <<>>, err |-> "duplicate"]
             ELSE IF ~Truthy(got.cmd) /\ names = COMMANDS
                  THEN [ok |-> FALSE, cmds |-> <<>>, err |-> "empty"]
             ELSE IF Truthy(got.cmd)
                  THEN BuildLoop(entries, ord, k + 1,
                                 add_command(cmds, got.cmd))
             ELSE BuildLoop(entries, ord, k + 1, cmds)

build_commands_list(entries, ord) == BuildLoop(entries, ord, 1, <<>>)

(***************************************************************************)
(* The invocation.                                                         *)
(***************************************************************************)
NoReport == [kind |-> "none", failed |-> <<>>, successful |-> <<>>,
             skipped |-> <<>>]

\* Runner.__init__: the Event is clear; no job is being executed
ExecIdle ==
    /\ supervisor = FALSE
    /\ workers = <<>>
    /\ proc = "none"
    /\ epc = "idle"
    /\ exc = "none"
    /\ set_count = 0

\* build_commands_list has not returned
NotBuilt == [ok |-> FALSE, cmds |-> <<>>, err |-> "pending"]

Init ==
    /\ pc = "parse_args"
    /\ cli_jobs \in SeqsUpTo(AllNames, MaxCli)
    /\ jobs_to_omit \in SeqsUpTo(AllNames, MaxOmit)
    /\ jobs_to_defer \in SeqsUpTo(AllNames, MaxDefer)
    /\ run_all \in BOOLEAN
    /\ fail_fast \in BOOLEAN
    /\ allow_duplicates \in BOOLEAN
    /\ display \in DisplayModes
    /\ OptionCount(cli_jobs, jobs_to_omit, jobs_to_defer, run_all, fail_fast,
                   allow_duplicates, display) <= MaxOptions
    /\ data = EmptyData
    /\ all_jobs = <<>>
    /\ successful_jobs = <<>>
    /\ failed_jobs = <<>>
    /\ is_successful = FALSE
    /\ cached = {}
    /\ job_suite = <<>>
    /\ deferred_jobs = <<>>
    /\ i = 0
    /\ is_run_successful = FALSE
    /\ log = <<>>
    /\ report = NoReport
    /\ exit_code = -1
    /\ table_entries = <<>>
    /\ scan_order = [k \in 1..3 |-> FALSE]
    /\ built = NotBuilt
    /\ ExecIdle
    /\ silent_logs = FALSE

\* sys.exit(code), or the return of main()
Exit(code) == pc' = "exit" /\ exit_code' = code

\* get_command_line_args: a rejected command line ends the process with
\* status 2 before the Runner exists
ParseArgs ==
    /\ pc = "parse_args"
    /\ IF ArgsAccepted(cli_jobs, jobs_to_omit, jobs_to_defer)
          /\ RunGroupOK(cli_jobs, run_all)
       THEN pc' = "run_stages" /\ exit_code' = exit_code
       ELSE Exit(2)
    /\ UNCHANGED <<cli_jobs, jobs_to_omit, run_all, fail_fast, jobs_to_defer,
                   allow_duplicates, display, data, all_jobs, successful_jobs,
                   failed_jobs, is_successful, cached, job_suite,
                   deferred_jobs, i, is_run_successful, log, report>>
    /\ UNCHANGED <<buildVars, execVars>>

ConfigFiles == {"missing", "empty", "ok"}

\* run.main is read by prepare_all_jobs_from_config alone, which job_suite
\* calls under this condition. Configurations that differ only in run.main
\* give the same run when it is not read: one of them is kept.
MainIsRead(d) ==
    /\ cli_jobs = <<>> /\ ~run_all /\ Contains(d.keys, RUN)
    /\ display \in {"none", "suite"}

\* what display_jobs_info prints
DisplayReport(d, suite) ==
    [NoReport EXCEPT !.kind = display,
                     !.successful = IF display = "suite" THEN suite
                                    ELSE IF display = "all" THEN d.keys
                                    ELSE <<>>]

\* run_stages up to the first iteration of the primary run_sub_flow:
\* handle_config_file and validate_cli_jobs (sys.exit(1) when one fails),
\* display_jobs_info and sys.exit() in a display mode, else the start of
\* run_jobs, where job_suite is resolved
RunStages ==
    /\ pc = "run_stages"
    /\ \E file \in ConfigFiles, keys \in KeyOrders :
       /\ (file # "ok" => keys = <<>>)
       /\ \E main \in MainValuesOf(keys), body \in BodyTables(keys) :
        LET d == [keys |-> keys, body |-> body, main |-> main]
            resolved == job_suite_property(d)
        IN
        /\ (MainIsRead(d) \/ d.main = NoneV)
        /\ data' = d
        /\ IF ~(handle_config_file(file, d) /\ validate_cli_jobs(d))
           THEN /\ Exit(1)
                /\ UNCHANGED <<all_jobs, job_suite, cached, report, i,
                               is_run_successful>>
           ELSE IF should_display_job_info
           THEN /\ IF display = "suite"
                   THEN /\ all_jobs' = resolved.all_jobs
                        /\ job_suite' = resolved.suite
                        /\ cached' = cached \cup {"job_suite"}
                   ELSE UNCHANGED <<all_jobs, job_suite, cached>>
                /\ report' = DisplayReport(d, job_suite')
                /\ Exit(0)
                /\ UNCHANGED <<i, is_run_successful>>
           ELSE /\ all_jobs' = resolved.all_jobs
                /\ job_suite' = resolved.suite
                /\ cached' = cached \cup {"job_suite"}
                /\ IF job_suite' = <<>>
                   THEN pc' = "log_stats" /\ UNCHANGED <<i, is_run_successful>>
                   ELSE pc' = "main_flow" /\ i' = 1 /\ is_run_successful' = TRUE
                /\ UNCHANGED <<report, exit_code>>
    /\ UNCHANGED <<cli_jobs, jobs_to_omit, run_all, fail_fast, jobs_to_defer,
                   allow_duplicates, display, successful_jobs, failed_jobs,
                   is_successful, deferred_jobs, log>>
    /\ UNCHANGED <<buildVars, execVars>>

get_subflow_suite(is_main_flow) == IF is_main_flow THEN job_suite ELSE deferred_jobs

\* variants of the break: never breaking, breaking without the fail-fast
\* flag, breaking in the deferred pass too
ShouldBreakNever(is_main_flow) == FALSE
ShouldBreakNoFlag(is_main_flow) == is_main_flow
ShouldBreakAnyFlow(is_main_flow) == fail_fast

\* the break of run_sub_flow after a failed job
ShouldBreak(is_main_flow) == is_main_flow /\ fail_fast

Flow(is_main_flow) == IF is_main_flow THEN "main" ELSE "deferred"
Event(is_main_flow, table, result) ==
    [flow |-> Flow(is_main_flow), job |-> table, result |-> result]

\* what the process exit status of the job's shell, or an interrupt, can be
Outcomes == {"zero", "nonzero", "interrupt"}

\* variant: the result of the deferred pass alone decides the run, as if it
\* were started with is_run_successful=True and had no failure
LoopNextDeferredDecides(is_main_flow, stop, ok) ==
    IF stop \/ i = Len(get_subflow_suite(is_main_flow))
    THEN /\ i' = 0
         /\ IF is_main_flow
            THEN pc' = "after_main" /\ UNCHANGED is_successful
            ELSE pc' = "log_stats" /\ is_successful' = TRUE
    ELSE i' = i + 1 /\ UNCHANGED <<pc, is_successful>>

\* where run_sub_flow goes after iteration i: on to i + 1, or out of the loop
\* (back in run_jobs, which after the deferred pass sets is_successful)
LoopNext(is_main_flow, stop, ok) ==
    IF stop \/ i = Len(get_subflow_suite(is_main_flow))
    THEN /\ i' = 0
         /\ IF is_main_flow
            THEN pc' = "after_main" /\ UNCHANGED is_successful
            ELSE pc' = "log_stats" /\ is_successful' = ok
    ELSE i' = i + 1 /\ UNCHANGED <<pc, is_successful>>

\* what build_commands_list can return for the job: one result for each
\* iteration order of the alias sets
BuildResults(table) ==
    {build_commands_list(TableOf(data.body[table]), ord) : ord \in AliasOrders}

\* one iteration of the loop of run_sub_flow
RunSubFlow(is_main_flow) ==
    /\ pc = IF is_main_flow THEN "main_flow" ELSE "deferred_flow"
    /\ \E res \in BuildResults(get_subflow_suite(is_main_flow)[i]) :
        LET table == get_subflow_suite(is_main_flow)[i]
        IN  IF ~res.ok
            THEN /\ failed_jobs' = Append(failed_jobs, table)
                 /\ log' = Append(log, Event(is_main_flow, table, "build_failed"))
                 /\ is_run_successful' = FALSE
                 /\ LoopNext(is_main_flow, ShouldBreak(is_main_flow), FALSE)
                 /\ UNCHANGED <<successful_jobs, exit_code>>
            ELSE \E outcome \in Outcomes :
                 /\ log' = Append(log, Event(is_main_flow, table, outcome))
                 /\ CASE outcome = "interrupt" ->
                           \* shell_manager: KeyboardInterrupt, sys.exit()
                           /\ Exit(0)
                           /\ UNCHANGED <<successful_jobs, failed_jobs, i,
                                          is_run_successful, is_successful>>
                      [] outcome = "nonzero" ->
                           /\ failed_jobs' = Append(failed_jobs, table)
                           /\ is_run_successful' = FALSE
                           /\ LoopNext(is_main_flow, ShouldBreak(is_main_flow),
                                       FALSE)
                           /\ UNCHANGED <<successful_jobs, exit_code>>
                      [] outcome = "zero" ->
                           /\ successful_jobs' = Append(successful_jobs, table)
                           /\ is_run_successful' = is_run_successful
                           /\ LoopNext(is_main_flow, FALSE, is_run_successful)
                           /\ UNCHANGED <<failed_jobs, exit_code>>
    /\ UNCHANGED <<cli_jobs, jobs_to_omit, run_all, fail_fast, jobs_to_defer,
                   allow_duplicates, display, data, all_jobs, cached,
                   job_suite, deferred_jobs, report>>
    /\ UNCHANGED <<buildVars, execVars>>

\* variant: the deferred suite is looked at whatever the fail-fast flag
deferred_is_read_always == TRUE

\* `self.fail_fast and self.deferred_jobs`: the property is read, and the
\* deferred suite resolved, only when fail_fast is set
deferred_is_read == fail_fast

\* run_jobs between the two passes: deferred_jobs is resolved here, and only
\* when fail_fast is set
RunJobsFinally ==
    /\ pc = "after_main"
    /\ IF deferred_is_read
       THEN /\ deferred_jobs' = prepare_job_suite(TRUE, all_jobs)
            /\ cached' = cached \cup {"deferred_jobs"}
       ELSE UNCHANGED <<deferred_jobs, cached>>
    /\ IF deferred_is_read /\ deferred_jobs' # <<>>
       THEN pc' = "deferred_flow" /\ i' = 1 /\ UNCHANGED is_successful
       ELSE pc' = "log_stats" /\ i' = 0 /\ is_successful' = is_run_successful
    /\ UNCHANGED <<cli_jobs, jobs_to_omit, run_all, fail_fast, jobs_to_defer,
                   allow_duplicates, display, data, all_jobs, successful_jobs,
                   failed_jobs, job_suite, is_run_successful, log, report,
                   exit_code>>
    /\ UNCHANGED <<buildVars, execVars>>

\* the end of run(): log_stats when should_display_stats, then main() returns
LogStats ==
    /\ pc = "log_stats"
    /\ IF ~should_display_stats
       THEN UNCHANGED <<report, cached>>
       ELSE IF is_successful
       THEN /\ report' = [NoReport EXCEPT !.kind = "success",
                                          !.successful = successful_jobs]
            /\ UNCHANGED cached
       ELSE /\ report' =
                [kind |-> "fail",
                 failed |-> failed_jobs,
                 successful |-> SelectSeq(successful_jobs,
                                    LAMBDA x : ~Contains(failed_jobs, x)),
                 skipped |-> skipped_jobs]
            /\ cached' = cached \cup {"skipped_jobs"}
    /\ Exit(0)
    /\ UNCHANGED <<cli_jobs, jobs_to_omit, run_all, fail_fast, jobs_to_defer,
                   allow_duplicates, display, data, all_jobs, successful_jobs,
                   failed_jobs, is_successful, job_suite, deferred_jobs, i,
                   is_run_successful, log>>
    /\ UNCHANGED <<buildVars, execVars>>

Next ==
    \/ ParseArgs
    \/ RunStages
    \/ RunSubFlow(TRUE)
    \/ RunSubFlow(FALSE)
    \/ RunJobsFinally
    \/ LogStats

Spec == Init /\ [][Next]_vars

(***************************************************************************)
(* Command assembly of one job table, taken alone: the table is any table  *)
(* of up to MaxEntries of the six alias keys, in any declaration order,    *)
(* and the alias sets are scanned in any order.                            *)
(***************************************************************************)
AliasKeys == Range(PRE_RUN) \cup Range(COMMANDS) \cup Range(POST_RUN)

\* the values a key of a job table may have: the empty string, a command,
\* the empty list, a list of two commands (the commands of key k are k and
\* k's second command "then")
EntryValues(key) == {Str(""), Str(key), List(<<>>), List(<<key, "then">>)}

Entries ==
    UNION {{[key |-> k, val |-> v] : v \in EntryValues(k)} : k \in AliasKeys}

\* job tables as the file declares them: key/value pairs in declaration
\* order, no key twice
JobTables ==
    {t \in SeqsUpTo(Entries, MaxEntries) :
        \A p, q \in 1..Len(t) : t[p].key = t[q].key => p = q}

\* the decoded table: table_entries.get(name, None) for each alias name
AsTable(pairs) ==
    [name \in AliasKeys |->
        IF \E n \in 1..Len(pairs) : pairs[n].key = name
        THEN (CHOOSE e \in Range(pairs) : e.key = name).val
        ELSE NoneV]

\* the job whose table is assembled
BuildTable == "a"

InitBuild ==
    /\ pc = "build"
    /\ table_entries \in JobTables
    /\ scan_order \in AliasOrders
    /\ built = NotBuilt
    /\ cli_jobs = <<>> /\ jobs_to_omit = <<>> /\ jobs_to_defer = <<>>
    /\ run_all = FALSE /\ fail_fast = FALSE /\ allow_duplicates = FALSE
    /\ display = "none"
    /\ data = EmptyData
    /\ all_jobs = <<>>
    /\ successful_jobs = <<>>
    /\ failed_jobs = <<>>
    /\ is_successful = FALSE
    /\ cached = {}
    /\ job_suite = <<>>
    /\ deferred_jobs = <<>>
    /\ i = 0
    /\ is_run_successful = FALSE
    /\ log = <<>>
    /\ report = NoReport
    /\ exit_code = -1
    /\ ExecIdle
    /\ silent_logs = FALSE

\* one call of build_commands_list(table, table_entries)
BuildJob ==
    /\ pc = "build"
    /\ built' = build_commands_list(AsTable(table_entries), scan_order)
    /\ failed_jobs' = IF built'.ok THEN failed_jobs
                      ELSE Append(failed_jobs, BuildTable)
    /\ pc' = "built"
    /\ UNCHANGED <<cli_jobs, jobs_to_omit, run_all, fail_fast, jobs_to_defer,
                   allow_duplicates, display, data, all_jobs, successful_jobs,
                   is_successful, cached, job_suite, deferred_jobs, i,
                   is_run_successful, log, report, exit_code, table_entries,
                   scan_order, execVars>>

NextBuild == BuildJob

SpecBuild == InitBuild /\ [][NextBuild]_vars

(***************************************************************************)
(* The run of the suites step by step: one iteration of run_sub_flow is    *)
(* build_commands_list, then execute_shell_commands with its executor, its *)
(* shell_manager, the spinner task and the subprocess, then the            *)
(* classification of the job.  The run starts where run_jobs found a       *)
(* primary suite that is not empty.                                        *)
(***************************************************************************)
ExecKeys == <<"a", "b">>

InitExec ==
    /\ pc = "main_flow"
    /\ cli_jobs \in SeqsUpTo(JobNames, MaxCli) \ {<<>>}
    /\ jobs_to_omit = <<>>
    /\ jobs_to_defer \in SeqsUpTo(JobNames, MaxDefer)
    /\ run_all = FALSE
    /\ fail_fast \in BOOLEAN
    /\ allow_duplicates \in BOOLEAN
    /\ display = "none"
    /\ silent_logs \in BOOLEAN
    /\ \E body \in BodyTables(ExecKeys) :
          data = [keys |-> ExecKeys, body |-> body, main |-> NoneV]
    /\ all_jobs = cli_jobs
    /\ job_suite = prepare_job_suite(FALSE, cli_jobs)
    /\ cached = {"job_suite"}
    /\ successful_jobs = <<>>
    /\ failed_jobs = <<>>
    /\ is_successful = FALSE
    /\ deferred_jobs = <<>>
    /\ i = 1
    /\ is_run_successful = TRUE
    /\ log = <<>>
    /\ report = NoReport
    /\ exit_code = -1
    /\ table_entries = <<>>
    /\ scan_order = [k \in 1..3 |-> FALSE]
    /\ built = NotBuilt
    /\ ExecIdle

\* the last event of the log gets its result
SetLast(events, result) == [events EXCEPT ![Len(events)].result = result]

FlowPc(is_main_flow) == IF is_main_flow THEN "main_flow" ELSE "deferred_flow"
InMainFlow == pc = "main_flow"

\* the top of an iteration of run_sub_flow: Logger.start and
\* build_commands_list; when it fails the iteration ends here
BeginJob(is_main_flow) ==
    /\ pc = FlowPc(is_main_flow) /\ epc = "idle"
    /\ \E res \in BuildResults(get_subflow_suite(is_main_flow)[i]) :
        LET table == get_subflow_suite(is_main_flow)[i]
        IN  IF ~res.ok
            THEN /\ failed_jobs' = Append(failed_jobs, table)
                 /\ log' = Append(log, Event(is_main_flow, table, "build_failed"))
                 /\ is_run_successful' = FALSE
                 /\ LoopNext(is_main_flow, ShouldBreak(is_main_flow), FALSE)
                 /\ UNCHANGED epc
            ELSE /\ log' = Append(log, Event(is_main_flow, table, "running"))
                 /\ epc' = "execute"
                 /\ UNCHANGED <<failed_jobs, is_run_successful, pc, i,
                                is_successful>>
    /\ UNCHANGED <<cli_jobs, jobs_to_omit, run_all, fail_fast, jobs_to_defer,
                   allow_duplicates, display, data, all_jobs, successful_jobs,
                   cached, job_suite, deferred_jobs, report, exit_code,
                   buildVars, silent_logs, supervisor, workers, proc, exc,
                   set_count>>

\* what no step of execute_shell_commands changes
RunnerState ==
    <<cli_jobs, jobs_to_omit, run_all, fail_fast, jobs_to_defer,
      allow_duplicates, display, data, all_jobs, cached, job_suite,
      deferred_jobs, report, buildVars, silent_logs>>

\* variant: the Event is left as the previous job set it
reset_event_keeps(is_set) == is_set

\* reset_event: the value of the Event after it
reset_event(is_set) == IF is_set THEN FALSE ELSE is_set

\* execute_shell_commands up to the body of `with shell_manager(cmds)`:
\* in silent mode reset_event and the executor, then shell_manager's try
ExecuteShellCommands ==
    /\ epc = "execute"
    /\ IF silent_logs
       THEN /\ supervisor' = reset_event(supervisor)
            /\ epc' = "submit"
       ELSE /\ epc' = "popen"
            /\ UNCHANGED supervisor
    /\ proc' = "none"
    /\ exc' = "none"
    /\ set_count' = 0
    /\ UNCHANGED <<RunnerState, pc, i, is_run_successful, is_successful,
                   successful_jobs, failed_jobs, log, exit_code, workers>>

\* executor.submit(self.spinner, i): the task starts
Submit ==
    /\ epc = "submit"
    /\ workers' = Append(workers, "running")
    /\ epc' = "sleep"
    /\ UNCHANGED <<RunnerState, pc, i, is_run_successful, is_successful,
                   successful_jobs, failed_jobs, log, exit_code, supervisor,
                   proc, exc, set_count>>

\* time.sleep(7)
Sleep ==
    /\ epc = "sleep"
    /\ epc' = "popen"
    /\ UNCHANGED <<RunnerState, pc, i, is_run_successful, is_successful,
                   successful_jobs, failed_jobs, log, exit_code, supervisor,
                   workers, proc, exc, set_count>>

\* run_subprocess: subprocess.Popen starts the shell
Popen ==
    /\ epc = "popen"
    /\ proc' = "running"
    /\ epc' = "communicate"
    /\ UNCHANGED <<RunnerState, pc, i, is_run_successful, is_successful,
                   successful_jobs, failed_jobs, log, exit_code, supervisor,
                   workers, exc, set_count>>

ReturnCodes == {"zero", "nonzero"}

\* run_subprocess: the shell ends with a return code
Communicate ==
    /\ epc = "communicate"
    /\ \E rc \in ReturnCodes : proc' = rc
    /\ epc' = "manager_exit"
    /\ UNCHANGED <<RunnerState, pc, i, is_run_successful, is_successful,
                   successful_jobs, failed_jobs, log, exit_code, supervisor,
                   workers, exc, set_count>>

\* where the body of `with shell_manager(cmds)` can be left by an exception
InGuardedRun == epc \in {"submit", "sleep", "popen", "communicate"}

\* a KeyboardInterrupt is raised in the primary thread
KeyboardInterrupt ==
    /\ InGuardedRun
    /\ exc' = "KeyboardInterrupt"
    /\ proc' = IF proc = "running" THEN "interrupted" ELSE proc
    /\ epc' = "manager_exit"
    /\ UNCHANGED <<RunnerState, pc, i, is_run_successful, is_successful,
                   successful_jobs, failed_jobs, log, exit_code, supervisor,
                   workers, set_count>>

\* subprocess.Popen, or the wait for the shell, raises another exception
\* (OSError when the shell cannot be started, UnicodeDecodeError on its
\* output)
RaiseError ==
    /\ epc \in {"popen", "communicate"}
    /\ exc' = "error"
    /\ proc' = IF proc = "running" THEN "abandoned" ELSE proc
    /\ epc' = "manager_exit"
    /\ UNCHANGED <<RunnerState, pc, i, is_run_successful, is_successful,
                   successful_jobs, failed_jobs, log, exit_code, supervisor,
                   workers, set_count>>

\* variant: the interrupt path forgets the Event
SignalsOnCompletionOnly(e) == silent_logs /\ e = "none"

\* shell_manager sets the Event in its except KeyboardInterrupt clause and
\* in its else clause, in silent mode; no clause handles another exception
Signals(e) == silent_logs /\ e \in {"none", "KeyboardInterrupt"}

\* the end of `with shell_manager(cmds)`: the else clause after a body that
\* ended normally, the except clause (which logs and calls sys.exit()) after
\* a KeyboardInterrupt, and neither for another exception
ShellManagerExit ==
    /\ epc = "manager_exit"
    /\ IF Signals(exc)
       THEN supervisor' = TRUE /\ set_count' = set_count + 1
       ELSE UNCHANGED <<supervisor, set_count>>
    /\ IF exc = "KeyboardInterrupt"
       THEN exc' = "SystemExit" /\ log' = SetLast(log, "interrupt")
       ELSE UNCHANGED <<exc, log>>
    /\ epc' = IF silent_logs THEN "executor_exit" ELSE "return"
    /\ UNCHANGED <<RunnerState, pc, i, is_run_successful, is_successful,
                   successful_jobs, failed_jobs, exit_code, workers, proc>>

\* variant: the executor is left without waiting for its tasks
ExecutorNeverWaits == TRUE

\* ThreadPoolExecutor.__exit__ is shutdown(wait=True): it returns when every
\* task of the executor has ended
ExecutorMayExit == \A w \in 1..Len(workers) : workers[w] = "done"

\* the end of `with ThreadPoolExecutor(2) as executor`
ExecutorExit ==
    /\ epc = "executor_exit"
    /\ ExecutorMayExit
    /\ epc' = "return"
    /\ UNCHANGED <<RunnerState, pc, i, is_run_successful, is_successful,
                   successful_jobs, failed_jobs, log, exit_code, supervisor,
                   workers, proc, exc, set_count>>

\* variant: the return code is not looked at in silent mode
is_job_successful_when_silent(p) == silent_logs \/ p = "zero"

\* run_subprocess returns proc.returncode == 0
is_job_successful(p) == p = "zero"

\* execute_shell_commands is left: by SystemExit (the process ends with
\* status 0), by another exception (uncaught: traceback and status 1), or
\* by its return, after which run_sub_flow classifies the job
Return ==
    /\ epc = "return"
    /\ CASE exc = "SystemExit" ->
              /\ Exit(0)
              /\ epc' = "exited"
              /\ UNCHANGED <<log, successful_jobs, failed_jobs, i,
                             is_run_successful, is_successful>>
         [] exc = "error" ->
              /\ Exit(1)
              /\ epc' = "exited"
              /\ log' = SetLast(log, "error")
              /\ UNCHANGED <<successful_jobs, failed_jobs, i,
                             is_run_successful, is_successful>>
         [] exc = "none" ->
              /\ epc' = "idle"
              /\ log' = SetLast(log, proc)
              /\ UNCHANGED exit_code
              /\ IF is_job_successful(proc)
                 THEN /\ successful_jobs' = Append(successful_jobs,
                                                   log[Len(log)].job)
                      /\ is_run_successful' = is_run_successful
                      /\ LoopNext(InMainFlow, FALSE, is_run_successful)
                      /\ UNCHANGED failed_jobs
                 ELSE /\ failed_jobs' = Append(failed_jobs, log[Len(log)].job)
                      /\ is_run_successful' = FALSE
                      /\ LoopNext(InMainFlow, ShouldBreak(InMainFlow), FALSE)
                      /\ UNCHANGED successful_jobs
    /\ UNCHANGED <<RunnerState, supervisor, workers, proc, exc, set_count>>

\* spinner: supervisor.wait(SPINNER_TIMEOUT) returns True once the Event is
\* set, and the task ends; a wait that times out leaves the task where it is
Spinner(w) ==
    /\ workers[w] = "running"
    /\ supervisor
    /\ workers' = [workers EXCEPT ![w] = "done"]
    /\ UNCHANGED <<RunnerState, pc, i, is_run_successful, is_successful,
                   successful_jobs, failed_jobs, log, exit_code, supervisor,
                   proc, epc, exc, set_count>>

SpinnerStep == \E w \in 1..Len(workers) : Spinner(w)

NextExec ==
    \/ BeginJob(TRUE)
    \/ BeginJob(FALSE)
    \/ ExecuteShellCommands
    \/ Submit
    \/ Sleep
    \/ Popen
    \/ Communicate
    \/ KeyboardInterrupt
    \/ RaiseError
    \/ ShellManagerExit
    \/ ExecutorExit
    \/ Return
    \/ SpinnerStep
    \/ RunJobsFinally
    \/ LogStats

SpecExec == InitExec /\ [][NextExec]_vars

\* the primary thread goes on through the exits of its context managers and
\* the spinner thread is scheduled; the shell is not bound to end, and
\* interrupts and errors need not happen
SpecExecFair ==
    /\ SpecExec
    /\ WF_vars(ShellManagerExit)
    /\ WF_vars(ExecutorExit)
    /\ WF_vars(Return)
    /\ WF_vars(SpinnerStep)

(***************************************************************************)
(* Vocabulary of the properties.                                           *)
(***************************************************************************)
MainEvents == SelectSeq(log, LAMBDA e : e.flow = "main")
DeferredEvents == SelectSeq(log, LAMBDA e : e.flow = "deferred")
JobsOf(events) == [k \in 1..Len(events) |-> events[k].job]
FailedEvent(e) == e.result \in {"nonzero", "build_failed"}
Interrupted == log # <<>> /\ log[Len(log)].result = "interrupt"
Resolved == "job_suite" \in cached
ConfigLoaded == pc \notin {"parse_args", "run_stages"}
\* the run went through run_jobs to the end of run()
RunEnded == pc = "exit" /\ Resolved /\ display = "none" /\ ~Interrupted

\* position of the first failed job of the primary pass, 0 when none failed
FirstFailure ==
    IF \E k \in 1..Len(MainEvents) : FailedEvent(MainEvents[k])
    THEN CHOOSE k \in 1..Len(MainEvents) :
            /\ FailedEvent(MainEvents[k])
            /\ \A m \in 1..(k - 1) : ~FailedEvent(MainEvents[m])
    ELSE 0

\* the elements of raw at the positions K, in the order of raw
SubseqAt(raw, K) ==
    [n \in 1..Cardinality(K) |->
        raw[CHOOSE k \in K : Cardinality({m \in K : m <= k}) = n]]

(***************************************************************************)
(* C1. Fail-fast.                                                          *)
(***************************************************************************)
\* the jobs of the primary suite after the first failed one
AfterFirstFailure == (FirstFailure + 1)..Len(job_suite)

\* C1 as stated: under fail-fast, when job k is the first of the primary
\* suite to fail, no later job of the suite is built or executed in the
\* primary pass, and in the final state each later job is in neither the
\* succeeded nor the failed list and is in the skipped set.
C1_FailFastAsStated ==
    (fail_fast /\ FirstFailure > 0) =>
        /\ Len(MainEvents) = FirstFailure
        /\ pc = "exit" =>
             \A m \in AfterFirstFailure :
                /\ ~Contains(successful_jobs \o failed_jobs, job_suite[m])
                /\ Contains(skipped_jobs, job_suite[m])

\* C1 amended: under fail-fast, when job k is the first of the primary suite
\* to fail, no later job of the suite is built or executed in the primary
\* pass; and each later job whose name is not that of one of the jobs 1..k
\* and that the deferred pass did not run is, in the final state, in neither
\* the succeeded nor the failed list, is in the skipped set and is printed
\* as skipped by the final report of an uninterrupted run.
C1_FailFast ==
    (fail_fast /\ FirstFailure > 0) =>
        /\ Len(MainEvents) = FirstFailure
        /\ pc = "exit" =>
             \A m \in AfterFirstFailure :
                (/\ \A j \in 1..FirstFailure : job_suite[j] # job_suite[m]
                 /\ ~Contains(JobsOf(DeferredEvents), job_suite[m]))
                => /\ ~Contains(successful_jobs \o failed_jobs, job_suite[m])
                   /\ Contains(skipped_jobs, job_suite[m])
                   /\ ~Interrupted =>
                        /\ report.kind = "fail"
                        /\ Contains(report.skipped, job_suite[m])

\* a fail-fast run that halted on its first job, ran a deferred job and
\* reported the second job of the suite as skipped
C1_Witness ==
    /\ pc = "exit" /\ fail_fast /\ FirstFailure = 1
    /\ Len(job_suite) = 2 /\ job_suite[2] # job_suite[1]
    /\ Len(DeferredEvents) = 1
    /\ report.skipped = <<job_suite[2]>>

(***************************************************************************)
(* C2. The deferred suite holds no job of the primary pass.                *)
(***************************************************************************)
\* C2: once the deferred suite is resolved, which is at the end of the
\* primary pass, none of its jobs is a job the primary pass put in the
\* succeeded or the failed list (the jobs the primary pass attempted).
C2_DeferredNeverReruns ==
    "deferred_jobs" \in cached =>
        \A k \in 1..Len(deferred_jobs) :
            ~Contains(JobsOf(MainEvents), deferred_jobs[k])

(***************************************************************************)
(* C3. Exit codes.                                                         *)
(***************************************************************************)
ConfigError == ConfigLoaded /\ data.keys = <<>>
UnknownName ==
    \E job \in Range(cli_jobs) \cup Range(jobs_to_defer) : ~Contains(data.keys, job)
InvalidMain == Resolved /\ SuiteRejected(data)

\* C3: an invocation that is to run jobs (no display mode) ends with status
\* zero only when every job succeeded, and
\* with a non-zero status after a configuration error, an unknown name, an
\* invalid run.main, a failed job or an interrupt.
C3_ExitCodes ==
    (pc = "exit" /\ display = "none") =>
        /\ exit_code = 0 => is_successful
        /\ (\/ ConfigError \/ UnknownName \/ InvalidMain
            \/ failed_jobs # <<>> \/ Interrupted) => exit_code # 0

(***************************************************************************)
(* C4. Resolution precedence.                                              *)
(***************************************************************************)
\* s without the elements equal to x, order kept
RECURSIVE Without(_, _)
Without(s, x) ==
    IF s = <<>> THEN <<>>
    ELSE IF s[1] = x THEN Without(Tail(s), x)
    ELSE <<s[1]>> \o Without(Tail(s), x)

\* run.main as the RunDirective rules want it
MainPasses ==
    /\ data.main.t = "list"
    /\ Len(data.main.v) >= 1
    /\ Range(data.main.v) \subseteq Range(data.keys) \ {RUN}

HasRunTable == RUN \in Range(data.keys)

\* C4: the raw list of the primary suite is the explicit list when one is
\* given; else, with run-all, the keys of the configuration but "run", in
\* declaration order; else, with a "run" table, run.main when it passes
\* validation (and nothing when it does not); else all keys in declaration
\* order.
C4_ResolutionPrecedence ==
    Resolved =>
        /\ cli_jobs # <<>> => all_jobs = cli_jobs
        /\ (cli_jobs = <<>> /\ run_all) => all_jobs = Without(data.keys, RUN)
        /\ (cli_jobs = <<>> /\ ~run_all /\ HasRunTable) =>
              IF MainPasses THEN all_jobs = data.main.v
              ELSE all_jobs = <<>> /\ job_suite = <<>>
        /\ (cli_jobs = <<>> /\ ~run_all /\ ~HasRunTable) =>
              all_jobs = data.keys

\* run.main decided the suite, and differs from what the lower rule and the
\* run-all rule would have given
C4_Witness ==
    /\ Resolved /\ cli_jobs = <<>> /\ ~run_all /\ HasRunTable
    /\ all_jobs = data.main.v /\ Len(all_jobs) = 2
    /\ all_jobs # Without(data.keys, RUN)

(***************************************************************************)
(* C5. Order-preserving filtering.                                         *)
(***************************************************************************)
\* the positions of the raw list that the filter keeps
KeptPositions(raw) ==
    {k \in 1..Len(raw) :
        /\ raw[k] \notin Range(jobs_to_omit)
        /\ allow_duplicates \/ \A m \in 1..(k - 1) : raw[m] # raw[k]}

C6_EagerNameValidation ==
    (ConfigLoaded /\ UnknownName) =>
        /\ pc = "exit" /\ exit_code # 0
        /\ ~Resolved
        /\ log = <<>> /\ successful_jobs = <<>> /\ failed_jobs = <<>>

\* a readable configuration with jobs, a defer-list with a name it lacks
C6_Witness ==
    /\ pc = "exit" /\ exit_code = 1 /\ data.keys # <<>>
    /\ \E job \in Range(jobs_to_defer) : ~Contains(data.keys, job)
    /\ \A job \in Range(cli_jobs) : Contains(data.keys, job)

(***************************************************************************)
(* C7. RunDirective validation.                                            *)
(***************************************************************************)
\* C7: when the suite is to come from the "run" table and run.main is
\* missing, empty, no list, holds "run" or holds a name that is no key, the
\* suite resolves to nothing and no job is ever attempted, in the primary
\* or in the deferred pass: both outcome lists stay empty.
C7_RunDirectiveValidation ==
    (/\ ConfigLoaded /\ data.keys # <<>> /\ ~UnknownName
     /\ cli_jobs = <<>> /\ ~run_all /\ HasRunTable /\ ~MainPasses) =>
        /\ Resolved => job_suite = <<>>
        /\ "deferred_jobs" \notin cached
        /\ pc \in {"log_stats", "exit"}
        /\ log = <<>> /\ successful_jobs = <<>> /\ failed_jobs = <<>>

\* run.main names a job the configuration lacks beside one it has, with
\* fail-fast and a defer-list: the run ended and ran nothing
C7_Witness ==
    /\ pc = "exit" /\ display = "none" /\ Resolved /\ log = <<>>
    /\ fail_fast /\ jobs_to_defer # <<>>
    /\ data.main.t = "list" /\ Len(data.main.v) = 2
    /\ \E k \in 1..2 : Contains(data.keys, data.main.v[k])
    /\ \E k \in 1..2 : ~Contains(data.keys, data.main.v[k])
    /\ RUN \notin Range(data.main.v)

(***************************************************************************)
(* C8. The reserved name.                                                  *)
(***************************************************************************)
\* C8: the resolved primary suite holds no entry named "run", and the
\* "run" table is never attempted as a job.
C8_ReservedName ==
    /\ Resolved => ~Contains(job_suite, RUN)
    /\ ~Contains(JobsOf(log), RUN)

\* run-all over a configuration that has a "run" table between its jobs
C8_Witness ==
    /\ Resolved /\ run_all /\ Len(data.keys) = 3 /\ data.keys[2] = RUN
    /\ Len(job_suite) = 2 /\ Len(log) = 2

(***************************************************************************)
(* C9. Continue on failure.                                                *)
(***************************************************************************)
\* C9: without fail-fast, the attempts are the entries of the resolved
\* primary suite, one attempt for each, in suite order; a job that fails is
\* in the failed list; and a run that is not interrupted attempts them all.
C9_ContinueOnFailure ==
    ~fail_fast =>
        /\ Len(log) <= Len(job_suite)
        /\ \A k \in 1..Len(log) :
              /\ log[k].flow = "main"
              /\ log[k].job = job_suite[k]
              /\ FailedEvent(log[k]) => Contains(failed_jobs, log[k].job)
        /\ (pc \in {"after_main", "log_stats"} \/ RunEnded) =>
              Len(log) = Len(job_suite)

\* the first job exited non-zero and the second one ran and succeeded
C9_Witness ==
    /\ ~fail_fast /\ RunEnded /\ Len(job_suite) = 2
    /\ log[1].result = "nonzero" /\ log[2].result = "zero"
    /\ failed_jobs = <<job_suite[1]>> /\ successful_jobs = <<job_suite[2]>>

(***************************************************************************)
(* C10. The deferred pass under fail-fast.                                 *)
(***************************************************************************)
\* the primary pass is over: it attempted its whole suite or halted on a
\* failed job
PrimaryEnded ==
    /\ MainEvents # <<>>
    /\ \/ Len(MainEvents) = Len(job_suite)
       \/ FailedEvent(MainEvents[Len(MainEvents)])

KeyPresent(name) == AsTable(table_entries)[name].t # "none"
BothAliases(names) == KeyPresent(names[1]) /\ KeyPresent(names[2])

\* C11: when both aliases of one phase are keys of the job table, whatever
\* their values and whatever order the aliases are scanned in, command
\* assembly fails with the duplicate-entry error and the job is recorded as
\* failed.
C11_DuplicateAliasDetection ==
    (pc = "built" /\ \E k \in 1..Len(Phases) : BothAliases(Phases[k])) =>
        /\ ~built.ok /\ built.err = "duplicate"
        /\ failed_jobs = <<BuildTable>>

(***************************************************************************)
(* C12. Command assembly order.                                            *)
(***************************************************************************)
\* a Command as its flattened sequence
Flat(val) == IF val.t = "none" THEN <<>> ELSE val.v

\* the value of a phase of a table that holds at most one of its aliases
PhaseValue(names) ==
    IF KeyPresent(names[1]) THEN AsTable(table_entries)[names[1]]
    ELSE AsTable(table_entries)[names[2]]

\* a valid job body: at most one alias of each phase, every value a command
\* or a list of commands, and a commands-phase of at least one command
ValidBody ==
    /\ \A k \in 1..Len(Phases) : ~BothAliases(Phases[k])
    /\ \A n \in 1..Len(table_entries) : table_entries[n].val # Str("")
    /\ Flat(PhaseValue(COMMANDS)) # <<>>

\* C12: for every valid job body the assembled sequence is the flattened
\* pre-phase, then the flattened commands-phase, then the flattened
\* post-phase, each in its own order, whatever the order of the keys in the
\* table, whichever alias names a phase and whether a phase is a string or a
\* list; an absent optional phase contributes nothing.
C12_AssemblyOrder ==
    (pc = "built" /\ ValidBody) =>
        /\ built.ok
        /\ built.cmds = Flat(PhaseValue(PRE_RUN)) \o Flat(PhaseValue(COMMANDS))
                        \o Flat(PhaseValue(POST_RUN))
        /\ failed_jobs = <<>>

\* a table that declares its post-phase first and its pre-phase last, the
\* one a string and the other a list, assembled into five commands
C12_Witness ==
    /\ pc = "built" /\ ValidBody /\ Len(table_entries) = 3
    /\ table_entries[1].key \in Range(POST_RUN)
    /\ table_entries[1].val.t = "str"
    /\ table_entries[3].key \in Range(PRE_RUN)
    /\ table_entries[3].val.t = "list"
    /\ Len(built.cmds) = 5
    /\ scan_order[2]

(***************************************************************************)
(* C14. The aggregate report.                                              *)
(***************************************************************************)
Disjoint(s, t) == Range(s) \cap Range(t) = {}

\* the lists of the report that name job
ReportLists(job) ==
    {l \in {"failed", "successful", "skipped"} : Contains(report[l], job)}

\* C14: in the final report of an unsuccessful, uninterrupted run the
\* failed, the successful and the skipped list are pairwise disjoint, every
\* selected name that is not omitted is in exactly one of them, and the
\* skipped names are the selected ones less the succeeded, the failed and
\* the omitted ones.
C14_DisjointReport ==
    report.kind = "fail" =>
        /\ Disjoint(report.failed, report.successful)
        /\ Disjoint(report.failed, report.skipped)
        /\ Disjoint(report.successful, report.skipped)
        /\ \A job \in Range(all_jobs) \ Range(jobs_to_omit) :
              Cardinality(ReportLists(job)) = 1
        /\ Range(report.skipped) =
              Range(all_jobs) \ (Range(successful_jobs) \cup Range(failed_jobs)
                                 \cup Range(jobs_to_omit))

\* a fail-fast run that halted on its first job and reports the second one
\* as skipped
C14_Witness ==
    /\ report.kind = "fail" /\ fail_fast
    /\ Len(report.failed) = 1 /\ Len(report.skipped) = 1

(***************************************************************************)
(* C16. Display modes execute nothing.                                     *)
(***************************************************************************)
\* C16: with a display flag set, a readable configuration and valid names,
\* the invocation prints what the flag asks for (the resolved suite, or all
\* the keys of the configuration, or the descriptions) and exits, with no
\* job built or executed: both outcome lists are empty and no job was
\* attempted.
C16_DisplayExecutesNothing ==
    (display # "none" /\ ConfigLoaded /\ data.keys # <<>> /\ ~UnknownName) =>
        /\ pc = "exit" /\ exit_code = 0
        /\ report.kind = display
        /\ display = "suite" => Resolved /\ report.successful = job_suite
        /\ display = "all" => report.successful = data.keys
        /\ log = <<>> /\ successful_jobs = <<>> /\ failed_jobs = <<>>
        /\ "deferred_jobs" \notin cached

\* the suite is listed for an explicit list of two jobs, and nothing ran
C16_Witness ==
    /\ pc = "exit" /\ display = "suite" /\ Len(cli_jobs) = 2
    /\ report.successful = job_suite /\ job_suite # <<>>
    /\ log = <<>>

(***************************************************************************)
(* C13. Outcome classification.                                            *)
(***************************************************************************)
\* the attempts whose shell ended with a return code
ZeroEvents == SelectSeq(log, LAMBDA e : e.result = "zero")
FailedEvents == SelectSeq(log, LAMBDA e : FailedEvent(e))

\* C13: the succeeded list is the jobs whose shell ended with status zero
\* and the failed list the jobs that failed (with a non-zero status, or in
\* command assembly), each in completion order, in streaming and in silent
\* mode alike; so an attempt that was executed and not interrupted is in
\* exactly one list, by its status, and the attempt that is running or was
\* interrupted is in neither.
C13_OutcomeClassification ==
    /\ successful_jobs = JobsOf(ZeroEvents)
    /\ failed_jobs = JobsOf(FailedEvents)
    /\ Len(successful_jobs) + Len(failed_jobs) =
          Cardinality({k \in 1..Len(log) :
                          log[k].result \in {"zero", "nonzero", "build_failed"}})

\* a silent run whose first job exited non-zero and whose second job exited
\* zero, the spinner of each ended
C13_Witness ==
    /\ silent_logs /\ pc = "exit" /\ Len(log) = 2
    /\ log[1].result = "nonzero" /\ log[2].result = "zero"
    /\ failed_jobs = <<log[1].job>> /\ successful_jobs = <<log[2].job>>
    /\ workers = <<"done", "done">>

(***************************************************************************)
(* C15. Interrupt abort.                                                   *)
(***************************************************************************)
InterruptReceived == exc \in {"KeyboardInterrupt", "SystemExit"}
NoWorkerRunning == \A w \in 1..Len(workers) : workers[w] # "running"

\* once shell_manager has handled the interrupt: in silent mode the Event is
\* set, and the interrupted job, the last one started, is in neither list
InterruptHandled ==
    exc = "SystemExit" =>
        /\ silent_logs => supervisor
        /\ Interrupted
        /\ Len(successful_jobs) + Len(failed_jobs) = Len(log) - 1

\* from the interrupt on no job is started and no list is appended to
NothingAfterInterrupt ==
    InterruptReceived =>
        /\ InterruptReceived'
        /\ Len(log') = Len(log)
        /\ successful_jobs' = successful_jobs
        /\ failed_jobs' = failed_jobs
        /\ deferred_jobs' = deferred_jobs

\* C15: when an interrupt arrives while a job is being executed, the
\* spinner in flight is signalled to stop, no later primary job and no
\* deferred job is ever started, the interrupted job is appended to neither
\* list, and the process terminates.
C15_InterruptAbort ==
    /\ [](InterruptHandled)
    /\ [][NothingAfterInterrupt]_vars
    /\ (InterruptReceived ~> (pc = "exit" /\ NoWorkerRunning))

\* a silent fail-fast run with a defer-list, interrupted in the shell of the
\* first of its two primary jobs: the process ended
C15_Witness ==
    /\ pc = "exit" /\ Interrupted /\ silent_logs /\ proc = "interrupted"
    /\ fail_fast /\ jobs_to_defer # <<>>
    /\ Len(job_suite) = 2 /\ Len(log) = 1
    /\ workers = <<"done">>

(***************************************************************************)
(* C17. Command assembly errors are local to one job.                      *)
(***************************************************************************)
\* the run went through log_stats to its end
ExecEnded == pc = "exit" /\ exc = "none"

\* the step of a job whose assembly fails appends the job to the failed
\* list once and starts neither a subprocess nor a spinner
AssemblyFailureStep ==
    (Len(log') = Len(log) + 1 /\ log'[Len(log')].result = "build_failed") =>
        /\ failed_jobs' = Append(failed_jobs, log'[Len(log')].job)
        /\ successful_jobs' = successful_jobs
        /\ proc' = proc /\ workers' = workers /\ epc' = "idle"

\* after a failed assembly the primary pass halts under fail-fast, and in
\* every other case the run goes on: a run that ends has attempted every
\* job of the suite that the failure was in
AssemblyFailureIsLocal ==
    \A k \in 1..Len(log) :
        log[k].result = "build_failed" =>
            /\ (log[k].flow = "main" /\ fail_fast) =>
                  MainEvents[Len(MainEvents)] = log[k]
            /\ (ExecEnded /\ log[k].flow = "main" /\ ~fail_fast) =>
                  Len(MainEvents) = Len(job_suite)
            /\ (ExecEnded /\ log[k].flow = "deferred") =>
                  Len(DeferredEvents) = Len(deferred_jobs)

\* C17: a job whose command assembly fails is appended to the failed list
\* exactly once and no subprocess is spawned for it; in the primary suite
\* under fail-fast it halts the remaining primary jobs, and in every other
\* case the following jobs are still attempted.
C17_AssemblyErrorsLocal ==
    /\ [](AssemblyFailureIsLocal)
    /\ [][AssemblyFailureStep]_vars

\* without fail-fast the first primary job failed in assembly with no
\* subprocess started, and the second one was run
C17_Witness ==
    /\ ExecEnded /\ ~fail_fast /\ Len(MainEvents) = 2
    /\ MainEvents[1].result = "build_failed"
    /\ MainEvents[2].result = "zero"
    /\ failed_jobs = <<job_suite[1]>>

(***************************************************************************)
(* C18. Lifetime of the progress worker.                                   *)
(***************************************************************************)
RunningWorkers == {w \in 1..Len(workers) : workers[w] = "running"}

\* a spinner is alive only between its submit and the end of the executor
\* of its job; at most one is; none is ever started in streaming mode
WorkerWithinJob ==
    /\ Cardinality(RunningWorkers) <= 1
    /\ RunningWorkers # {} =>
          /\ pc \in {"main_flow", "deferred_flow"}
          /\ epc \in {"sleep", "popen", "communicate", "manager_exit",
                      "executor_exit"}
    /\ ~silent_logs => workers = <<>>

\* the shell of the job ended with a return code, or was interrupted
SubprocessEnded == proc \in ReturnCodes \cup {"interrupted"}

\* C18: in silent mode, once the subprocess of the job has completed or
\* been interrupted the spinner observes the signal and ends, and
\* execute_shell_commands does not return and the next job does not start
\* before it has ended: at most one spinner is alive at any time, and none
\* outlives its job; in streaming mode no spinner is ever started.
C18_WorkerLifetime ==
    /\ [](WorkerWithinJob)
    /\ (SubprocessEnded ~> NoWorkerRunning)

\* the spinner of the second job is alive while its shell runs, that of
\* the first job has ended
C18_Witness ==
    /\ silent_logs /\ workers = <<"done", "running">>
    /\ proc = "running" /\ epc = "communicate" /\ Len(log) = 2

(***************************************************************************)
(* C19. Protocol of the cancellation signal.                               *)
(***************************************************************************)
\* in the guarded run of a silent job the Event is clear until shell_manager
\* sets it; it is set at most once, and once when the executor is left
\* after a shell that completed or an interrupt
SignalState ==
    /\ set_count <= 1
    /\ (silent_logs /\ epc \in {"sleep", "popen", "communicate", "manager_exit"})
          => ~supervisor /\ set_count = 0
    /\ (silent_logs /\ epc \in {"executor_exit", "return"} /\ exc # "error")
          => supervisor /\ set_count = 1

\* the Event is clear when a spinner starts; it is set by the primary thread
\* alone, after the shell completed or an interrupt came; it is cleared
\* only when no spinner is alive
SignalStep ==
    /\ Len(workers') > Len(workers) => ~supervisor /\ ~supervisor'
    /\ supervisor' # supervisor => workers' = workers /\ epc' # epc
    /\ (~supervisor /\ supervisor') =>
          /\ set_count' = set_count + 1
          /\ proc \in ReturnCodes \/ exc = "KeyboardInterrupt"
    /\ (supervisor /\ ~supervisor') => NoWorkerRunning /\ epc = "execute"

C20_NoHang ==
    (silent_logs /\ epc = "executor_exit") => supervisor

RunSucceeded == job_suite # <<>> /\ failed_jobs = <<>>

\* C22 as stated: at the end of every uninterrupted run the run is reported
\* as successful ("All jobs succeeded") if and only if the resolved primary
\* suite was not empty and the failed list is empty after both passes.
C22_SuccessFlagAsStated ==
    RunEnded => (report.kind = "success" <=> RunSucceeded)

\* C22 amended: at the end of every uninterrupted run the success flag is
\* set if and only if the resolved primary suite was not empty and the
\* failed list is empty after both passes, and the run is reported as
\* successful if and only if the flag is set and the statistics are printed
\* (no explicit list, or one of more than one name); a failure in either
\* pass leaves the flag unset, whatever the other pass did.
C22_SuccessFlag ==
    RunEnded =>
        /\ is_successful <=> RunSucceeded
        /\ report.kind = "success" <=> (is_successful /\ should_display_stats)
        /\ report.kind = "success" => report.successful = successful_jobs
        /\ (\E k \in 1..Len(log) : FailedEvent(log[k])) => ~is_successful
        /\ (~is_successful /\ should_display_stats) => report.kind = "fail"

\* the primary pass halted on its first job and every deferred job
\* succeeded: the run is reported as unsuccessful
C22_Witness ==
    /\ RunEnded /\ fail_fast /\ FirstFailure = 1
    /\ DeferredEvents # <<>>
    /\ \A k \in 1..Len(DeferredEvents) : DeferredEvents[k].result = "zero"
    /\ ~is_successful /\ report.kind = "fail"

====
